---- MODULE Spec2Model ----
(***************************************************************************)
(* Secret-Santa bot (ZEDtm/santabot): the pairing service, the handlers    *)
(* that reach it, and the background notification task, as a state         *)
(* machine over the database tables.                                       *)
(*                                                                         *)
(* The bot is one asyncio process: a handler runs without interruption     *)
(* from one `await` to the next, so each action below is the code between  *)
(* two awaits.  generate_pairs is a plain (synchronous) function and is    *)
(* therefore one step, but every create_santa_pair inside it commits on    *)
(* its own, which is what a persistence failure in the middle exposes.     *)
(*                                                                         *)
(* Time is counted in units of five minutes.                               *)
(***************************************************************************)
EXTENDS Naturals, Sequences, FiniteSets, Bags, TLC

\* ---------------------------------------------------------------- bounds
NumUsers == 4       \* Telegram users 1..NumUsers
NumReqs  == 2       \* start_pairing callbacks in flight at one time
MaxTime  == 3       \* the clock stops here
MaxN     == 5       \* participants drawn for a direct call of generate_pairs
MaxServices == 4       \* NotificationService objects made

\* ------------------------------------------------------- program constants
MinParticipants == 3    \* pairing.py:23, admin.py:433
CheckPeriod     == 6    \* notifications.py:58  asyncio.sleep(1800)
WindowFrom      == 1    \* notifications.py:157 timedelta(minutes=-5)
WindowTo        == 2    \* notifications.py:158 timedelta(minutes=-10)

\* ------------------------------------------------------------- the event
EventIds     == {1}     \* the events table holds one event
MissingEvent == 2       \* an id that resolves to no event
GroupChat    == 100     \* a group chat the bot was added to
AdminIds     == {1}     \* settings.ADMIN_IDS
Senders      == {1}     \* the users who write anonymous messages
RegEnds      == {1}     \* registration_end entered for the event
ShipAfter    == {1}     \* shipping_deadline - registration_end

Users  == 1..NumUsers
Status == {"registration", "in_progress", "completed"}

VARIABLES
    now,           \* datetime.now()
    events,        \* table events: id -> row
    participants,  \* table participants: row id = index
    santa_pairs,   \* table santa_pairs: row id = index
    fsm,           \* aiogram FSM storage: key -> state and data
    req,           \* bag of the start_pairing handler instances in flight
    notifier,      \* NotificationService._run
    link,          \* process_link_code_with_state handler instance
    call,          \* last direct call of generate_pairs (service level)
    messages,      \* table anonymous_messages: whether it has a row
    sent,          \* bot.send_message calls of send_pairing_notifications, in order
    relayed,       \* the last anonymous message or reply handed to Telegram
    service,       \* the NotificationService objects made, the global one, the last call
    gift_confirmations  \* table gift_confirmations: the pair_id of each row

vars == <<now, events, participants, santa_pairs, fsm, req, notifier, link, call, messages, sent,
          relayed, service, gift_confirmations>>

\* ------------------------------------------------------------ sequences
Range(s) == {s[i] : i \in DOMAIN s}

Reverse(s) == [i \in 1..Len(s) |-> s[Len(s) + 1 - i]]

Swap(s, i, j) == [s EXCEPT ![i] = s[j], ![j] = s[i]]

\* query.first() over the row ids that match: the lowest, 0 for None
First(rows) ==
    IF rows = {} THEN 0 ELSE CHOOSE i \in rows : \A j \in rows : i <= j

\* every ordering of the finite set S: the outcomes of random.shuffle
Perms(S) ==
    {p \in [1..Cardinality(S) -> S] : \A i, j \in 1..Cardinality(S) : p[i] = p[j] => i = j}

\* ------------------------------------------------------------- queries
\* db.query(Participant).filter(Participant.event_id == event_id).all()
ParticipantsOf(parts, e) == {i \in DOMAIN parts : parts[i].event_id = e}

\* db.query(SantaPair).filter(SantaPair.event_id == event_id)
PairsOf(prs, e) == {i \in DOMAIN prs : prs[i].event_id = e}

\* get_participant_by_telegram(db, event_id, telegram_id) is not None
IsRegistered(parts, e, u) ==
    \E i \in DOMAIN parts : parts[i].event_id = e /\ parts[i].telegram_id = u

\* ------------------------------------------------ services/pairing.py
\* a threshold of two instead of three
TooFewForTwo(n) == n < MinParticipants - 1

\* len(participants) < 3
TooFew(n) == n < MinParticipants

\* no look at the pairs stored already
NeverPaired(existing) == FALSE

\* a look that lets a minimal pairing pass as none
PairedBeyondMinimum(existing) == existing > MinParticipants

\* existing_pairs > 0
AlreadyPaired(existing) == existing > 0

\* the reversal first, then the first and the middle receiver exchanged
ReverseThenSwap(ids) ==
    LET n == Len(ids)
    IN  IF n % 2 # 0 THEN Swap(Reverse(ids), 1, (n \div 2) + 1) ELSE Reverse(ids)

\* the reversal alone, without the exchange on an odd length
ReversedOnly(ids) == Reverse(ids)

\* the middle element copied over the first instead of exchanged with it
MiddleOverFirst(ids) ==
    LET n == Len(ids)
    IN  Reverse(IF n % 2 # 0 THEN [ids EXCEPT ![1] = ids[(n \div 2) + 1]] ELSE ids)

\* receivers = participant_ids.copy(); on an odd length the first and the
\* middle element change places; then receivers.reverse()
Receivers(ids) ==
    LET n == Len(ids)
    IN  Reverse(IF n % 2 # 0 THEN Swap(ids, (n \div 2) + 1, 1) ELSE ids)

\* zip(participant_ids, receivers) as santa_pairs rows
PairRows(e, ids) ==
    [i \in 1..Len(ids) |->
        [event_id |-> e, santa_id |-> ids[i], receiver_id |-> Receivers(ids)[i]]]

\* the rows without the last one
CommittedButLast(rows, fault) ==
    IF rows = <<>> THEN rows ELSE SubSeq(rows, 1, Len(rows) - 1)

\* create_santa_pair commits each row by itself: when the step numbered
\* `fault` raises (1..n: that create_santa_pair, n+1: the status update),
\* db.rollback() undoes only the open transaction, and the rows of the
\* earlier steps stay.  fault = 0: nothing raises.
Committed(rows, fault) ==
    IF fault = 0 THEN rows ELSE SubSeq(rows, 1, fault - 1)

\* generate_pairs(event_id), with the shuffle outcome `ids` and the failing
\* persistence step `fault` as inputs; the result and the tables afterwards
generate_pairs(parts, prs, evs, e, ids, fault) ==
    LET n        == Cardinality(ParticipantsOf(parts, e))
        existing == Cardinality(PairsOf(prs, e))
        same     == [pairs |-> prs, events |-> evs]
    IN  IF TooFew(n) THEN [res |-> "insufficient"] @@ same
        ELSE IF AlreadyPaired(existing) THEN [res |-> "already_paired"] @@ same
        ELSE IF fault # 0
             THEN [res    |-> "failed",
                   pairs  |-> prs \o Committed(PairRows(e, ids), fault),
                   events |-> evs]
             ELSE [res    |-> "ok",
                   pairs  |-> prs \o Committed(PairRows(e, ids), fault),
                   events |-> IF e \in DOMAIN evs
                              THEN [evs EXCEPT ![e].status = "in_progress"]
                              ELSE evs]

\* the inputs of one run of generate_pairs on the tables as they are: the
\* shuffle and the persistence steps are reached only past both early returns
ReachesShuffle(parts, prs, e) ==
    /\ ~TooFew(Cardinality(ParticipantsOf(parts, e)))
    /\ ~AlreadyPaired(Cardinality(PairsOf(prs, e)))

Shuffles(parts, prs, e) ==
    IF ReachesShuffle(parts, prs, e) THEN Perms(ParticipantsOf(parts, e)) ELSE {<<>>}

Faults(parts, prs, e) ==
    IF ReachesShuffle(parts, prs, e)
    THEN 0..(Cardinality(ParticipantsOf(parts, e)) + 1) ELSE {0}

\* of the shuffle outcomes, those the whole-bot specification tries: the ids
\* in rising and in falling order
Sample(shuffles) ==
    {p \in shuffles : \/ \A i, j \in DOMAIN p : i < j => p[i] < p[j]
                      \/ \A i, j \in DOMAIN p : i < j => p[i] > p[j]}

\* a wake-up time past the end of the clock, kept as one value
Capped(t) == IF t > MaxTime THEN MaxTime + 1 ELSE t

\* --------------------------------------------------------- initial rows
EventRow(re, sd) ==
    [status |-> "registration", registration_end |-> re,
     shipping_deadline |-> sd, group_chat_id |-> 0]

NoCall == [res |-> "none", prev |-> "none", n |-> 0, fault |-> 0,
           status |-> "registration", before |-> <<>>]

IdleNotifier == [pc |-> "sleep", next |-> 0]
IdleLink     == [pc |-> "idle", event_id |-> 0, loaded |-> "registration"]
NoFsm        == [state |-> "none", event_id |-> 0, recipient_type |-> "none",
                 recipient_id |-> 0, sender_id |-> 0, pair_id |-> 0]
NoRelay      == [kind |-> "none", from |-> 0, to |-> 0, pair_id |-> 0]
NoService    == [global |-> 0, made |-> <<>>, last |-> "none"]

\* ------------------------------------------------ the service, called alone
\* generate_pairs called on an event with n participants, any status, twice
\* or more in a row
InitSvc ==
    /\ now = 0
    /\ \E st \in Status :
          events = [e \in EventIds |-> [EventRow(1, 4) EXCEPT !.status = st]]
    /\ \E n \in 0..MaxN :
          participants = [i \in 1..n |-> [event_id |-> 1, telegram_id |-> i]]
    /\ santa_pairs = <<>>
    /\ fsm = [u \in Users |-> NoFsm]
    /\ req = EmptyBag
    /\ notifier = IdleNotifier
    /\ link = IdleLink
    /\ call = NoCall
    /\ messages = FALSE
    /\ sent = <<>>
    /\ relayed = NoRelay
    /\ service = NoService
    /\ gift_confirmations = <<>>

CallGeneratePairs ==
    \E e \in EventIds :
    \E ids \in Shuffles(participants, santa_pairs, e), fault \in Faults(participants, santa_pairs, e) :
        LET out == generate_pairs(participants, santa_pairs, events, e, ids, fault)
        IN  /\ santa_pairs' = out.pairs
            /\ events' = out.events
            /\ call' = [res |-> out.res, prev |-> call.res,
                        n |-> Cardinality(ParticipantsOf(participants, e)),
                        fault |-> fault, status |-> events[e].status,
                        before |-> santa_pairs]
            /\ UNCHANGED <<now, participants, fsm, req, notifier, link, messages, sent, relayed, service, gift_confirmations>>

NextSvc == CallGeneratePairs

SpecSvc == InitSvc /\ [][NextSvc]_vars

\* ------------------------------------------------------- the whole bot
Init ==
    /\ now = 0
    /\ \E re \in RegEnds, sa \in ShipAfter :
          events = [e \in EventIds |-> EventRow(re, re + sa)]
    /\ participants = <<>>
    /\ santa_pairs = <<>>
    /\ fsm = [u \in Users |-> NoFsm]
    /\ req = EmptyBag
    /\ \E first \in 0..(CheckPeriod - 1) :
          notifier = [pc |-> "sleep", next |-> Capped(first)]
    /\ link = IdleLink
    /\ call = NoCall
    /\ messages = FALSE
    /\ sent = <<>>
    /\ relayed = NoRelay
    /\ service = NoService
    /\ gift_confirmations = <<>>

\* ---------------------------------------------------- handlers/user.py
\* /register in the private chat: the events still open for registration;
\* with exactly one, the wizard starts unless the user is registered already
OpenEvents ==
    {e \in EventIds : events[e].registration_end > now /\ events[e].status = "registration"}

start_registration(u) ==
    /\ \A v \in Users : v < u => IsRegistered(participants, 1, v)
    /\ Cardinality(OpenEvents) = 1
    /\ \E e \in OpenEvents :
          /\ ~(events[e].registration_end < now)
          /\ ~IsRegistered(participants, e, u)
          /\ fsm' = [fsm EXCEPT ![u] = [NoFsm EXCEPT !.state = "waiting_for_wishes",
                                                      !.event_id = e]]
    /\ UNCHANGED <<now, events, participants, santa_pairs, req, notifier, link, call, messages, sent, relayed, service, gift_confirmations>>

\* the same command in the group chat: the last of the events linked to the
\* chat, whatever its status; the wizard is kept under the key (user, chat)
GroupKey(u) == NumUsers + u
UserOf(k)   == IF k > NumUsers THEN k - NumUsers ELSE k

start_registration_in_group(k) ==
    /\ k > NumUsers
    /\ \E e \in EventIds :
          /\ events[e].group_chat_id = GroupChat
          /\ ~(events[e].registration_end < now)
          /\ ~IsRegistered(participants, e, UserOf(k))
          /\ fsm' = [fsm EXCEPT ![k] = [NoFsm EXCEPT !.state = "waiting_for_wishes",
                                                      !.event_id = e]]
    /\ UNCHANGED <<now, events, participants, santa_pairs, req, notifier, link, call, messages, sent, relayed, service, gift_confirmations>>

\* a button of the list of events: the event has to exist and its
\* registration_end must not have passed; nothing else is looked at
select_event(u, e) ==
    /\ e \in DOMAIN events
    /\ ~(events[e].registration_end < now)
    /\ fsm' = [fsm EXCEPT ![u].event_id = e, ![u].state = "waiting_for_wishes"]
    /\ UNCHANGED <<now, events, participants, santa_pairs, req, notifier, link, call, messages, sent, relayed, service, gift_confirmations>>

wishes_then_delivery(u) ==
    /\ fsm[u].state = "waiting_for_wishes"
    /\ fsm' = [fsm EXCEPT ![u].state = "waiting_for_delivery"]
    /\ UNCHANGED <<now, events, participants, santa_pairs, req, notifier, link, call, messages, sent, relayed, service, gift_confirmations>>

process_wishes(u) ==
    /\ fsm[u].state = "waiting_for_wishes"
    /\ fsm' = [fsm EXCEPT ![u].state = "waiting_for_address"]
    /\ UNCHANGED <<now, events, participants, santa_pairs, req, notifier, link, call, messages, sent, relayed, service, gift_confirmations>>

process_address(u) ==
    /\ fsm[u].state = "waiting_for_address"
    /\ fsm' = [fsm EXCEPT ![u].state = "waiting_for_delivery"]
    /\ UNCHANGED <<now, events, participants, santa_pairs, req, notifier, link, call, messages, sent, relayed, service, gift_confirmations>>

\* create_participant with the event id kept in the wizard's data: neither
\* the event's status, nor its pairs, nor the participants it has are looked
\* at; the commit may fail; state.clear() runs in the finally block
process_delivery_and_register(u) ==
    /\ fsm[u].state = "waiting_for_delivery"
    /\ \E created \in BOOLEAN :
          participants' = IF created
                          THEN Append(participants, [event_id |-> fsm[u].event_id,
                                                     telegram_id |-> UserOf(u)])
                          ELSE participants
    /\ fsm' = [fsm EXCEPT ![u] = NoFsm]
    /\ UNCHANGED <<now, events, santa_pairs, req, notifier, link, call, messages, sent, relayed, service, gift_confirmations>>

\* --------------------------------------------------- handlers/admin.py
\* the handler instances in flight
Handlers == BagToSet(req)

\* an early return that answers every case as too few participants
RejectedAsTooFew(u, e, why) ==
    /\ req' = req (+) SetToBag({[pc |-> "answer", res |-> "too_few", event_id |-> e,
                                 n |-> 0, loaded |-> "registration", by |-> u]})
    /\ UNCHANGED <<events, santa_pairs>>

\* an early return of start_pairing with its answer
Rejected(u, e, why) ==
    /\ req' = req (+) SetToBag({[pc |-> "answer", res |-> why, event_id |-> e,
                                 n |-> 0, loaded |-> "registration", by |-> u]})
    /\ UNCHANGED <<events, santa_pairs>>

\* notifications whatever generate_pairs returned
AlwaysNotify(ok) == "notify"

\* 'if success:' send_pairing_notifications, 'else:' the failure answer
AfterGeneratePairs(ok) == IF ok THEN "notify" ELSE "answer"

\* pairing at any time
NeverTooEarly(e) == FALSE

\* 'if event.registration_end > datetime.now():' registration is still open
TooEarly(e) == events[e].registration_end > now

\* start_pairing pressed by user u, up to its first await: the three checks
\* of the handler (none of them on u), then generate_pairs; on success
\* send_pairing_notifications starts
start_pairing(u) ==
    /\ BagCardinality(req) < NumReqs
    /\ \E e \in EventIds \cup {MissingEvent} :
          IF e \notin DOMAIN events THEN Rejected(u, e, "not_found")
          ELSE IF TooEarly(e) THEN Rejected(u, e, "too_early")
          ELSE IF Cardinality(ParticipantsOf(participants, e)) < MinParticipants
               THEN Rejected(u, e, "too_few")
          ELSE \E ids \in Sample(Shuffles(participants, santa_pairs, e)),
                  fault \in Faults(participants, santa_pairs, e) :
                  LET out == generate_pairs(participants, santa_pairs, events, e, ids, fault)
                      ok  == out.res = "ok"
                  IN  /\ santa_pairs' = out.pairs
                      /\ events' = out.events
                      /\ req' = req (+) SetToBag({
                                   [pc |-> AfterGeneratePairs(ok),
                                    res |-> out.res, event_id |-> e, by |-> u,
                                    n |-> IF ok THEN Cardinality(ParticipantsOf(participants, e))
                                          ELSE 0,
                                    loaded |-> IF ok THEN events[e].status
                                               ELSE "registration"]})
    /\ UNCHANGED <<now, participants, fsm, notifier, link, call, messages, sent, relayed, service, gift_confirmations>>

\* after the awaits of send_pairing_notifications: event.status =
\* 'in_progress' on the row this handler loaded before generate_pairs ran;
\* the session writes the column only if the value differs from the loaded one
finish_pairing(h) ==
    /\ h.pc = "notify"
    /\ events' = IF h.loaded # "in_progress"
                 THEN [events EXCEPT ![h.event_id].status = "in_progress"]
                 ELSE events
    /\ req' = (req (-) SetToBag({h}))
                 (+) SetToBag({[h EXCEPT !.pc = "answer", !.loaded = "registration"]})
    /\ UNCHANGED <<now, participants, santa_pairs, fsm, notifier, link, call, messages, sent, relayed, service, gift_confirmations>>

\* callback.message.answer(...) and callback.answer() have returned: the
\* handler instance is gone
answered(h) ==
    /\ h.pc = "answer"
    /\ req' = req (-) SetToBag({h})
    /\ UNCHANGED <<now, events, participants, santa_pairs, fsm, notifier, link, call, messages, sent, relayed, service, gift_confirmations>>

\* ------------------------------- handlers/admin.py: the wizard of an event
\* the wizard's data before the first answer
NoWizard == [state |-> "none", registration_end |-> 0, shipping_deadline |-> 0]

\* get_events_by_admin(db, admin_id)
EventsOf(admin) == {e \in DOMAIN events : events[e].admin_id = admin}

\* 'if existing_events:' the administrator is told of the event they have
OwnsOne(admin) == EventsOf(admin) # {}

\* the create_event button: refused when the administrator has an event,
\* else state.clear() and the wizard starts under the key (user, chat)
start_creating_event(k) ==
    /\ ~OwnsOne(UserOf(k))
    /\ fsm' = [fsm EXCEPT ![k] = [NoWizard EXCEPT !.state = "waiting_for_event_title"]]
    /\ UNCHANGED <<now, events, participants, santa_pairs, req, notifier, link, call, messages, sent, relayed, service, gift_confirmations>>

\* admin_back, the cancel button of the wizard: state.clear()
back_to_admin_panel(k) ==
    /\ fsm[k].state # "none"
    /\ fsm' = [fsm EXCEPT ![k] = NoWizard]
    /\ UNCHANGED <<now, events, participants, santa_pairs, req, notifier, link, call, messages, sent, relayed, service, gift_confirmations>>

process_event_title(k) ==
    /\ fsm[k].state = "waiting_for_event_title"
    /\ fsm' = [fsm EXCEPT ![k].state = "waiting_for_registration_end"]
    /\ UNCHANGED <<now, events, participants, santa_pairs, req, notifier, link, call, messages, sent, relayed, service, gift_confirmations>>

\* a date in the past is refused and asked again
process_registration_end(k, end_date) ==
    /\ fsm[k].state = "waiting_for_registration_end"
    /\ ~(end_date < now)
    /\ fsm' = [fsm EXCEPT ![k].registration_end = end_date,
                          ![k].state = "waiting_for_shipping_deadline"]
    /\ UNCHANGED <<now, events, participants, santa_pairs, req, notifier, link, call, messages, sent, relayed, service, gift_confirmations>>

\* any date taken as the shipping deadline
any_shipping_deadline(k, shipping_deadline) ==
    /\ fsm[k].state = "waiting_for_shipping_deadline"
    /\ fsm' = [fsm EXCEPT ![k].shipping_deadline = shipping_deadline,
                          ![k].state = "waiting_for_budget"]
    /\ UNCHANGED <<now, events, participants, santa_pairs, req, notifier, link, call, messages, sent, relayed, service, gift_confirmations>>

\* a date not after the end of registration is refused and asked again
process_shipping_deadline(k, shipping_deadline) ==
    /\ fsm[k].state = "waiting_for_shipping_deadline"
    /\ ~(shipping_deadline <= fsm[k].registration_end)
    /\ fsm' = [fsm EXCEPT ![k].shipping_deadline = shipping_deadline,
                          ![k].state = "waiting_for_budget"]
    /\ UNCHANGED <<now, events, participants, santa_pairs, req, notifier, link, call, messages, sent, relayed, service, gift_confirmations>>

\* the budget typed: a number creates the event for message.from_user.id,
\* with no look at the events there are; anything else is an error; the
\* state is cleared in both cases
process_budget_and_create_event(k, valid) ==
    /\ fsm[k].state = "waiting_for_budget"
    /\ events' = IF valid
                 THEN Append(events, [status |-> "registration",
                                      registration_end |-> fsm[k].registration_end,
                                      shipping_deadline |-> fsm[k].shipping_deadline,
                                      group_chat_id |-> 0, admin_id |-> UserOf(k)])
                 ELSE events
    /\ fsm' = [fsm EXCEPT ![k] = NoWizard]
    /\ UNCHANGED <<now, participants, santa_pairs, req, notifier, link, call, messages, sent, relayed, service, gift_confirmations>>

\* ------------------------ services/pairing.py: send_pairing_notifications
\* the receiver of the event's first stored pair, whoever asks
FirstPairReceiver(prs, e, santa) ==
    LET row == First(PairsOf(prs, e))
    IN  IF row = 0 THEN 0 ELSE prs[row].receiver_id

\* get_recipient_info(participant_id, event_id): the receiver of the first
\* pair of the event in which the participant is the santa; 0 for None
Recipient(prs, e, santa) ==
    LET row == First({i \in PairsOf(prs, e) : prs[i].santa_id = santa})
    IN  IF row = 0 THEN 0 ELSE prs[row].receiver_id

\* a loop that is left at the first delivery that raises
LeftOnFailure(log) == \E i \in DOMAIN log : log[i].outcome = "failed"

\* 'except Exception ... continue' inside the loop: a delivery that raises
\* is logged and the loop goes on; nothing takes the handler out of it
LoopLeft(log) == FALSE

\* the loop over the event's pairs is over
Delivered(h) ==
    \/ LoopLeft(sent)
    \/ Len(sent) >= Cardinality(PairsOf(santa_pairs, h.event_id))

\* one turn of the loop: the message for the next pair of the event is built
\* from get_recipient_info and handed to bot.send_message, which returns or
\* raises; without recipient info the pair is passed over
send_pairing_notification(h) ==
    /\ h.pc = "notify"
    /\ ~Delivered(h)
    /\ LET rows  == PairsOf(santa_pairs, h.event_id)
           row   == CHOOSE i \in rows : Cardinality({j \in rows : j < i}) = Len(sent)
           santa == santa_pairs[row].santa_id
           about == Recipient(santa_pairs, h.event_id, santa)
           entry == [santa |-> santa, to |-> participants[santa].telegram_id,
                     about |-> about, outcome |-> "skipped"]
       IN  IF about = 0
           THEN sent' = Append(sent, entry)
           ELSE \E outcome \in {"delivered", "failed"} :
                   sent' = Append(sent, [entry EXCEPT !.outcome = outcome])
    /\ UNCHANGED <<now, events, participants, santa_pairs, fsm, req, notifier, link, call,
                   messages, relayed, service, gift_confirmations>>

\* ------------------------------------------- services/notifications.py
\* get_events_with_*: the deadline t lies between 10 and 5 minutes back
InWindow(t) == t + WindowFrom <= now /\ now <= t + WindowTo

\* _check_event_status_changes, first loop
check_events_started ==
    /\ notifier.pc = "sleep"
    /\ now >= notifier.next
    /\ events' = [e \in DOMAIN events |->
                    IF events[e].status = "registration" /\ InWindow(events[e].registration_end)
                    THEN [events[e] EXCEPT !.status = "in_progress"]
                    ELSE events[e]]
    /\ notifier' = [notifier EXCEPT !.pc = "ended"]
    /\ UNCHANGED <<now, participants, santa_pairs, fsm, req, link, call, messages, sent, relayed, service, gift_confirmations>>

\* _check_event_status_changes, second loop; then asyncio.sleep(1800)
check_events_ended ==
    /\ notifier.pc = "ended"
    /\ events' = [e \in DOMAIN events |->
                    IF events[e].status = "in_progress" /\ InWindow(events[e].shipping_deadline)
                    THEN [events[e] EXCEPT !.status = "completed"]
                    ELSE events[e]]
    /\ notifier' = [pc |-> "sleep", next |-> Capped(now + CheckPeriod)]
    /\ UNCHANGED <<now, participants, santa_pairs, fsm, req, link, call, messages, sent, relayed, service, gift_confirmations>>

\* ---------------------------------------------- handlers/group_chat.py
\* /link EVENT<e> by an administrator in a group chat linked to no event:
\* process_link_code_with_state up to its first await
start_linking_chat(e) ==
    /\ link.pc = "idle"
    /\ AdminIds # {}
    /\ \A x \in DOMAIN events : events[x].group_chat_id # GroupChat
    /\ e \in DOMAIN events
    /\ events' = [events EXCEPT ![e].group_chat_id = GroupChat]
    /\ link' = [pc |-> "reply", event_id |-> e, loaded |-> events[e].status]
    /\ UNCHANGED <<now, participants, santa_pairs, fsm, req, notifier, call, messages, sent, relayed, service, gift_confirmations>>

\* after the replies: 'if event.status != "registration"' on the row as
\* it was reloaded after the first commit
finish_linking_chat ==
    /\ link.pc = "reply"
    /\ events' = IF link.loaded # "registration"
                 THEN [events EXCEPT ![link.event_id].status = "registration"]
                 ELSE events
    /\ link' = IdleLink
    /\ UNCHANGED <<now, participants, santa_pairs, fsm, req, notifier, call, messages, sent, relayed, service, gift_confirmations>>

\* /link without a code by administrator UserOf(k) in the group chat: the
\* same two checks, then the code is asked for under the key (user, chat)
start_linking_chat_without_code(k) ==
    /\ UserOf(k) \in AdminIds
    /\ \A x \in DOMAIN events : events[x].group_chat_id # GroupChat
    /\ fsm' = [fsm EXCEPT ![k].state = "waiting_for_link_code"]
    /\ UNCHANGED <<now, events, participants, santa_pairs, req, notifier, link, call, messages, sent, relayed, service, gift_confirmations>>

\* the code EVENT<e> typed in waiting_for_link_code: the event, when there
\* is one, gets the chat, with no look at the events linked to the chat;
\* state.clear() in the finally block
process_link_code(k, e) ==
    /\ fsm[k].state = "waiting_for_link_code"
    /\ events' = IF e \in DOMAIN events
                 THEN [events EXCEPT ![e].group_chat_id = GroupChat]
                 ELSE events
    /\ fsm' = [fsm EXCEPT ![k] = NoFsm]
    /\ UNCHANGED <<now, participants, santa_pairs, req, notifier, link, call, messages, sent, relayed, service, gift_confirmations>>

\* the cancel button of the question: state.clear()
cancel_linking(k) ==
    /\ fsm[k].state = "waiting_for_link_code"
    /\ fsm' = [fsm EXCEPT ![k] = NoFsm]
    /\ UNCHANGED <<now, events, participants, santa_pairs, req, notifier, link, call, messages, sent, relayed, service, gift_confirmations>>

\* ----------------------------------------------- handlers/messaging.py
\* db.query(Participant).filter(Participant.telegram_id == user).first()
FirstParticipant(u) ==
    First({i \in DOMAIN participants : participants[i].telegram_id = u})

\* message_santa: the pair in which the user is the receiver
write_to_santa(u) ==
    LET me   == FirstParticipant(u)
        IsMine(p) == p.event_id = participants[me].event_id /\ p.receiver_id = me
        pair == First({i \in DOMAIN santa_pairs : IsMine(santa_pairs[i])})
    IN  /\ me # 0
        /\ pair # 0
        /\ santa_pairs[pair].santa_id \in DOMAIN participants
        /\ fsm' = [fsm EXCEPT ![u] =
                     [state |-> "waiting_for_message",
                      event_id |-> participants[me].event_id,
                      recipient_type |-> "santa",
                      recipient_id |-> santa_pairs[pair].santa_id,
                      sender_id |-> me, pair_id |-> fsm[u].pair_id]]
        /\ UNCHANGED <<now, events, participants, santa_pairs, req, notifier, link, call,
                       messages, sent, relayed, service, gift_confirmations>>

\* message_recipient: the pair in which the user is the santa
write_to_recipient(u) ==
    LET me   == FirstParticipant(u)
        IsMine(p) == p.event_id = participants[me].event_id /\ p.santa_id = me
        pair == First({i \in DOMAIN santa_pairs : IsMine(santa_pairs[i])})
    IN  /\ me # 0
        /\ pair # 0
        /\ santa_pairs[pair].receiver_id \in DOMAIN participants
        /\ fsm' = [fsm EXCEPT ![u] =
                     [state |-> "waiting_for_message",
                      event_id |-> participants[me].event_id,
                      recipient_type |-> "recipient",
                      recipient_id |-> santa_pairs[pair].receiver_id,
                      sender_id |-> me, pair_id |-> fsm[u].pair_id]]
        /\ UNCHANGED <<now, events, participants, santa_pairs, req, notifier, link, call,
                       messages, sent, relayed, service, gift_confirmations>>

\* the message typed in waiting_for_message: the pair is looked up again in
\* the direction chosen, a row of anonymous_messages is written, the text
\* is relayed; state.clear() in every case
process_message(u) ==
    LET d == fsm[u]
        to_recipient == d.recipient_type = "recipient"
        IsRoute(p) ==
            /\ p.event_id = d.event_id
            /\ p.santa_id = (IF to_recipient THEN d.sender_id ELSE d.recipient_id)
            /\ p.receiver_id = (IF to_recipient THEN d.recipient_id ELSE d.sender_id)
        pair == First({i \in DOMAIN santa_pairs : IsRoute(santa_pairs[i])})
    IN  /\ d.state = "waiting_for_message"
        /\ messages' = (messages \/ pair # 0)
        /\ relayed' = IF pair # 0
                      THEN [kind |-> "message", from |-> u,
                            to |-> participants[d.recipient_id].telegram_id,
                            pair_id |-> pair]
                      ELSE relayed
        /\ fsm' = [fsm EXCEPT ![u] = NoFsm]
        /\ UNCHANGED <<now, events, participants, santa_pairs, req, notifier, link, call, sent,
                       service, gift_confirmations>>

\* a reply relayed for whoever holds the button
AnyoneInPair(sender, pair) == TRUE

\* sender.id in [pair.santa_id, pair.receiver_id]
InPair(sender, pair) == sender \in {pair.santa_id, pair.receiver_id}

\* the button 'reply_<pair id>' pressed by user u: the pair id goes into the
\* FSM data, next to what is there
prepare_reply(u, pid) ==
    /\ fsm' = [fsm EXCEPT ![u].state = "waiting_for_reply", ![u].pair_id = pid]
    /\ UNCHANGED <<now, events, participants, santa_pairs, req, notifier, link, call,
                   messages, sent, relayed, service, gift_confirmations>>

\* the text typed in waiting_for_reply: the pair of the button, the sender's
\* participant record in the pair's event, the membership check, then a row
\* of anonymous_messages and the relay to the other member; state.clear()
\* in every case
send_reply(u) ==
    LET d      == fsm[u]
        found  == d.pair_id \in DOMAIN santa_pairs
        pair   == santa_pairs[d.pair_id]
        sender == First({i \in DOMAIN participants :
                            /\ participants[i].event_id = pair.event_id
                            /\ participants[i].telegram_id = u})
        recipient_id == IF sender = pair.santa_id THEN pair.receiver_id ELSE pair.santa_id
        relays == /\ found
                  /\ sender # 0
                  /\ InPair(sender, pair)
                  /\ recipient_id \in DOMAIN participants
    IN  /\ d.state = "waiting_for_reply"
        /\ messages' = (messages \/ relays)
        /\ relayed' = IF relays
                      THEN [kind |-> "reply", from |-> u,
                            to |-> participants[recipient_id].telegram_id,
                            pair_id |-> d.pair_id]
                      ELSE relayed
        /\ fsm' = [fsm EXCEPT ![u] = NoFsm]
        /\ UNCHANGED <<now, events, participants, santa_pairs, req, notifier, link, call, sent,
                       service, gift_confirmations>>

\* --------------------------- services/notifications.py: shipping reminders
\* _get_recipient_info_message(event): the receiver of event.pairs[0],
\* 0 when the event has no pairs
get_recipient_info_message(prs, e) ==
    LET row == First(PairsOf(prs, e))
    IN  IF row = 0 THEN 0 ELSE prs[row].receiver_id

\* one turn of the loop of _notify_participants(event, message,
\* only_with_recipients=True) for the reminder of _check_shipping_reminders:
\* the one message built for the event goes to the next participant who is
\* the santa of a pair; bot.send_message returns or raises
shipping_reminder(e) ==
    /\ ~(events[e].shipping_deadline < now)
    /\ LET rows  == ParticipantsOf(participants, e)
           about == get_recipient_info_message(santa_pairs, e)
       IN  /\ Len(sent) < Cardinality(rows)
           /\ LET p == CHOOSE i \in rows : Cardinality({j \in rows : j < i}) = Len(sent)
                   has_recipient == \E r \in PairsOf(santa_pairs, e) :
                                       santa_pairs[r].santa_id = p
                   entry == [santa |-> p, to |-> participants[p].telegram_id,
                             about |-> about, outcome |-> "skipped"]
               IN  IF ~has_recipient
                   THEN sent' = Append(sent, entry)
                   ELSE \E outcome \in {"delivered", "failed"} :
                           sent' = Append(sent, [entry EXCEPT !.outcome = outcome])
    /\ UNCHANGED <<now, events, participants, santa_pairs, fsm, req, notifier, link, call,
                   messages, relayed, service, gift_confirmations>>

\* ------------------------------------------- services/notifications.py
\* the lifecycle of the service: start and stop of any object made so far,
\* init_notification_service and stop_notification_service on the global
Services == DOMAIN service.made
Loops    == {i \in Services : service.made[i].task = "loop"}

\* if self.running: return; else running = True and a new task
start(i) ==
    /\ i \in Services
    /\ service' = [service EXCEPT
                      !.made[i] = IF @.running THEN @
                                  ELSE [running |-> TRUE, task |-> "loop"],
                      !.last = "start"]
    /\ UNCHANGED <<now, events, participants, santa_pairs, fsm, req, notifier, link, call,
                   messages, sent, relayed,
                   gift_confirmations>>

\* if not self.running: return; else running = False and the task cancelled
Stopped(made, i) ==
    [made EXCEPT ![i] = IF @.running THEN [running |-> FALSE, task |-> "cancelled"]
                        ELSE @]

stop(i) ==
    /\ i \in Services
    /\ service' = [service EXCEPT !.made = Stopped(@, i), !.last = "stop"]
    /\ UNCHANGED <<now, events, participants, santa_pairs, fsm, req, notifier, link, call,
                   messages, sent, relayed,
                   gift_confirmations>>

\* a new object replaces the global one, and is started
init_notification_service ==
    /\ Len(service.made) < MaxServices
    /\ service' = [global |-> Len(service.made) + 1,
                   made |-> Append(service.made, [running |-> TRUE, task |-> "loop"]),
                   last |-> "init_notification_service"]
    /\ UNCHANGED <<now, events, participants, santa_pairs, fsm, req, notifier, link, call,
                   messages, sent, relayed,
                   gift_confirmations>>

\* if notification_service: stop it and forget it
stop_notification_service ==
    /\ service' = [global |-> 0,
                   made |-> IF service.global # 0 THEN Stopped(service.made, service.global)
                            ELSE service.made,
                   last |-> "stop_notification_service"]
    /\ UNCHANGED <<now, events, participants, santa_pairs, fsm, req, notifier, link, call,
                   messages, sent, relayed,
                   gift_confirmations>>

\* --------------------------------------------------- handlers/gifts.py
\* db.query(Participant).filter(telegram_id == user).order_by(id.desc()).first()
LastParticipant(u) ==
    LET mine == {i \in DOMAIN participants : participants[i].telegram_id = u}
    IN  IF mine = {} THEN 0 ELSE CHOOSE i \in mine : \A j \in mine : j <= i

\* has_gift_confirmation(db, pair_id)
has_gift_confirmation(pair) == \E i \in DOMAIN gift_confirmations : gift_confirmations[i] = pair

\* confirm_gift_sent: the pair in which the user's latest participant is the
\* santa; refused when the pair has a confirmation; else the wizard starts
\* under the key (user, chat) with the pair's id in its data
start_gift_confirmation(k) ==
    LET me   == LastParticipant(UserOf(k))
        pair == First({i \in DOMAIN santa_pairs :
                          /\ santa_pairs[i].event_id = participants[me].event_id
                          /\ santa_pairs[i].santa_id = me})
    IN  /\ me # 0
        /\ pair # 0
        /\ ~has_gift_confirmation(pair)
        /\ fsm' = [fsm EXCEPT ![k].state = "GiftConfirmationStates:waiting_for_tracking",
                              ![k].pair_id = pair]
        /\ UNCHANGED <<now, events, participants, santa_pairs, req, notifier, link, call,
                       messages, sent, relayed, service, gift_confirmations>>

\* a tracking number typed
process_tracking_number(k) ==
    /\ fsm[k].state = "GiftConfirmationStates:waiting_for_tracking"
    /\ fsm' = [fsm EXCEPT ![k].state = "GiftConfirmationStates:waiting_for_message"]
    /\ UNCHANGED <<now, events, participants, santa_pairs, req, notifier, link, call,
                   messages, sent, relayed, service, gift_confirmations>>

\* /skip typed instead
skip_tracking_number(k) ==
    /\ fsm[k].state = "GiftConfirmationStates:waiting_for_tracking"
    /\ fsm' = [fsm EXCEPT ![k].state = "GiftConfirmationStates:waiting_for_message"]
    /\ UNCHANGED <<now, events, participants, santa_pairs, req, notifier, link, call,
                   messages, sent, relayed, service, gift_confirmations>>

\* the message typed or skipped: create_gift_confirmation for the pair of
\* the wizard's data, with no look at the confirmations the pair has; the
\* commit may fail; state.clear() in the finally block
process_gift_message(k) ==
    /\ fsm[k].state = "GiftConfirmationStates:waiting_for_message"
    /\ \E created \in BOOLEAN :
          gift_confirmations' = IF created THEN Append(gift_confirmations, fsm[k].pair_id)
                                ELSE gift_confirmations
    /\ fsm' = [fsm EXCEPT ![k] = NoFsm]
    /\ UNCHANGED <<now, events, participants, santa_pairs, req, notifier, link, call,
                   messages, sent, relayed, service>>

\* ------------------------------------------------------------ the clock
\* the notification loop wakes when its sleep is over, not a tick later
Tick ==
    /\ now < MaxTime
    /\ notifier.pc = "sleep" => now < notifier.next
    /\ now' = now + 1
    /\ UNCHANGED <<events, participants, santa_pairs, fsm, req, notifier, link, call, messages, sent, relayed, service, gift_confirmations>>

\* registration, pairing, the notification loop, chat linking
Next ==
    \/ \E u \in Users : start_registration(u)
    \/ \E u \in Users : process_wishes(u)
    \/ \E u \in Users : process_address(u)
    \/ \E u \in Users : process_delivery_and_register(u)
    \/ \E u \in AdminIds : start_pairing(u)
    \/ \E h \in Handlers : finish_pairing(h)
    \/ \E h \in Handlers : answered(h)
    \/ check_events_started
    \/ check_events_ended
    \/ \E e \in EventIds : start_linking_chat(e)
    \/ finish_linking_chat
    \/ Tick

Spec == Init /\ [][Next]_vars

\* the same with anonymous messaging, for a notification loop whose first
\* check falls five minutes after the end of registration
InitAll ==
    /\ Init
    /\ \E e \in EventIds : notifier.next = events[e].registration_end + WindowFrom

NextAll ==
    \/ \E u \in Users : start_registration(u)
    \/ \E u \in Users : process_wishes(u)
    \/ \E u \in Users : process_address(u)
    \/ \E u \in Users : process_delivery_and_register(u)
    \/ \E u \in AdminIds : start_pairing(u)
    \/ \E h \in Handlers : finish_pairing(h)
    \/ \E h \in Handlers : answered(h)
    \/ check_events_started
    \/ check_events_ended
    \/ \E e \in EventIds : start_linking_chat(e)
    \/ finish_linking_chat
    \/ \E u \in Senders : write_to_santa(u)
    \/ \E u \in Senders : write_to_recipient(u)
    \/ \E u \in Senders : process_message(u)
    \/ Tick

SpecAll == InitAll /\ [][NextAll]_vars

\* ------------------------------------- the pairing request, delivery by
\* delivery: registration has just ended with n participants, any user
\* presses the button, every delivery may fail
Callers == AdminIds \cup {2}    \* the administrator and one other user

InitNotify ==
    /\ \E re \in RegEnds, sa \in ShipAfter :
          /\ events = [e \in EventIds |-> EventRow(re, re + sa)]
          /\ now = re
    /\ \E n \in 0..MaxN :
          participants = [i \in 1..n |-> [event_id |-> 1, telegram_id |-> i]]
    /\ santa_pairs = <<>>
    /\ fsm = [u \in Users |-> NoFsm]
    /\ req = EmptyBag
    /\ notifier = IdleNotifier
    /\ link = IdleLink
    /\ call = NoCall
    /\ messages = FALSE
    /\ sent = <<>>
    /\ relayed = NoRelay
    /\ service = NoService
    /\ gift_confirmations = <<>>

NextNotify ==
    \/ \E u \in Callers : start_pairing(u)
    \/ \E h \in Handlers : send_pairing_notification(h)
    \/ \E h \in Handlers : Delivered(h) /\ finish_pairing(h)
    \/ \E h \in Handlers : answered(h)

SpecNotify == InitNotify /\ [][NextNotify]_vars

\* ------------------------------------ anonymous messages and replies on a
\* paired event: a participant and the user with the highest id (registered
\* or not) write through the menu and press reply buttons of any pair
Repliers == Senders \cup {NumUsers}

InitMsg ==
    /\ \E re \in RegEnds, sa \in ShipAfter :
          /\ events = [e \in EventIds |->
                          [EventRow(re, re + sa) EXCEPT !.status = "in_progress"]]
          /\ now = re
    /\ \E n \in MinParticipants..MaxN :
          /\ participants = [i \in 1..n |-> [event_id |-> 1, telegram_id |-> i]]
          /\ \E ids \in Sample(Perms(1..n)) : santa_pairs = PairRows(1, ids)
    /\ fsm = [u \in Users |-> NoFsm]
    /\ req = EmptyBag
    /\ notifier = IdleNotifier
    /\ link = IdleLink
    /\ call = NoCall
    /\ messages = FALSE
    /\ sent = <<>>
    /\ relayed = NoRelay
    /\ service = NoService
    /\ gift_confirmations = <<>>

NextMsg ==
    \/ \E u \in Repliers : write_to_santa(u)
    \/ \E u \in Repliers : write_to_recipient(u)
    \/ \E u \in Repliers : process_message(u)
    \/ \E u \in Repliers : \E pid \in 1..(Len(santa_pairs) + 1) : prepare_reply(u, pid)
    \/ \E u \in Repliers : send_reply(u)

SpecMsg == InitMsg /\ [][NextMsg]_vars

\* ------------------------------------- registration alone: two users, each
\* in the private chat and in the group chat, the event linked to the group
\* chat or not
Registrants == {1, 2}
FsmKeys     == Registrants \cup {GroupKey(u) : u \in Registrants}

InitReg ==
    /\ now = 0
    /\ \E re \in RegEnds, sa \in ShipAfter, g \in {0, GroupChat} :
          events = [e \in EventIds |->
                       [EventRow(re, re + sa) EXCEPT !.group_chat_id = g]]
    /\ participants = <<>>
    /\ santa_pairs = <<>>
    /\ fsm = [k \in FsmKeys |-> NoFsm]
    /\ req = EmptyBag
    /\ notifier = [pc |-> "sleep", next |-> Capped(CheckPeriod)]
    /\ link = IdleLink
    /\ call = NoCall
    /\ messages = FALSE
    /\ sent = <<>>
    /\ relayed = NoRelay
    /\ service = NoService
    /\ gift_confirmations = <<>>

NextReg ==
    \/ \E u \in Registrants : start_registration(u)
    \/ \E u \in Registrants : start_registration_in_group(GroupKey(u))
    \/ \E u \in Registrants, e \in EventIds \cup {MissingEvent} : select_event(u, e)
    \/ \E k \in FsmKeys : process_wishes(k)
    \/ \E k \in FsmKeys : process_address(k)
    \/ \E k \in FsmKeys : Len(participants) < MaxN /\ process_delivery_and_register(k)
    \/ Tick

SpecReg == InitReg /\ [][NextReg]_vars

\* ------------------------------------- one shipping reminder of an event
\* in progress with its pairs stored
InitRemind == InitMsg

NextRemind == \E e \in EventIds : shipping_reminder(e)

SpecRemind == InitRemind /\ [][NextRemind]_vars

\* ------------------------------------- registration and the notification
\* loop, the loop running for ever and the clock going on; registration
\* ends now or at any time of RegEnds
InitLive ==
    /\ now = 0
    /\ \E re \in RegEnds \cup {0}, sa \in ShipAfter :
          events = [e \in EventIds |-> EventRow(re, re + sa)]
    /\ participants = <<>>
    /\ santa_pairs = <<>>
    /\ fsm = [u \in Users |-> NoFsm]
    /\ req = EmptyBag
    /\ \E first \in 0..(CheckPeriod - 1) :
          notifier = [pc |-> "sleep", next |-> Capped(first)]
    /\ link = IdleLink
    /\ call = NoCall
    /\ messages = FALSE
    /\ sent = <<>>
    /\ relayed = NoRelay
    /\ service = NoService
    /\ gift_confirmations = <<>>

\* the time after the end of the clock, as one value: reached when no event
\* in progress has its shipping window still to come; the loop goes on
\* waking there, one check after the other
Later ==
    /\ now = MaxTime
    /\ notifier.pc = "sleep" => now < notifier.next
    /\ \A e \in DOMAIN events :
          events[e].status = "in_progress" => events[e].shipping_deadline + WindowTo <= MaxTime
    /\ now' = MaxTime + 1
    /\ UNCHANGED <<events, participants, santa_pairs, fsm, req, notifier, link, call, messages, sent, relayed, service, gift_confirmations>>

NextLive ==
    \/ \E u \in Users : start_registration(u)
    \/ \E u \in Users : process_wishes(u)
    \/ \E u \in Users : process_address(u)
    \/ \E u \in Users : process_delivery_and_register(u)
    \/ check_events_started
    \/ check_events_ended
    \/ Tick
    \/ Later

SpecLive ==
    /\ InitLive /\ [][NextLive]_vars
    /\ WF_vars(Tick) /\ WF_vars(Later)
    /\ WF_vars(check_events_started) /\ WF_vars(check_events_ended)

\* ------------------------------------- the creation of events: every
\* administrator in the private chat and in a group chat, no event yet
AdminKeys == AdminIds \cup {GroupKey(u) : u \in AdminIds}
Dates     == 0..(MaxTime + 1)

InitAdmin ==
    /\ now = 0
    /\ events = <<>>
    /\ participants = <<>>
    /\ santa_pairs = <<>>
    /\ fsm = [k \in AdminKeys |-> NoWizard]
    /\ req = EmptyBag
    /\ notifier = [pc |-> "sleep", next |-> Capped(CheckPeriod)]
    /\ link = IdleLink
    /\ call = NoCall
    /\ messages = FALSE
    /\ sent = <<>>
    /\ relayed = NoRelay
    /\ service = NoService
    /\ gift_confirmations = <<>>

NextAdmin ==
    \/ \E k \in AdminKeys : start_creating_event(k)
    \/ \E k \in AdminKeys : back_to_admin_panel(k)
    \/ \E k \in AdminKeys : process_event_title(k)
    \/ \E k \in AdminKeys, d \in Dates : process_registration_end(k, d)
    \/ \E k \in AdminKeys, d \in Dates : process_shipping_deadline(k, d)
    \/ \E k \in AdminKeys, valid \in BOOLEAN : process_budget_and_create_event(k, valid)
    \/ Tick

SpecAdmin == InitAdmin /\ [][NextAdmin]_vars

\* ------------------------------------- chat linking with the notification
\* loop: two events, the administrators in one group chat
LinkKeys == {GroupKey(u) : u \in AdminIds}

InitLink ==
    /\ now = 0
    /\ \E re \in RegEnds, sa \in ShipAfter :
          events = <<EventRow(re, re + sa), EventRow(re, re + sa)>>
    /\ participants = <<>>
    /\ santa_pairs = <<>>
    /\ fsm = [k \in LinkKeys |-> NoFsm]
    /\ req = EmptyBag
    /\ \E first \in 0..(CheckPeriod - 1) :
          notifier = [pc |-> "sleep", next |-> Capped(first)]
    /\ link = IdleLink
    /\ call = NoCall
    /\ messages = FALSE
    /\ sent = <<>>
    /\ relayed = NoRelay
    /\ service = NoService
    /\ gift_confirmations = <<>>

NextLink ==
    \/ \E e \in DOMAIN events : start_linking_chat(e)
    \/ finish_linking_chat
    \/ \E k \in LinkKeys : start_linking_chat_without_code(k)
    \/ \E k \in LinkKeys, e \in 1..(Len(events) + 1) : process_link_code(k, e)
    \/ \E k \in LinkKeys : cancel_linking(k)
    \/ check_events_started
    \/ check_events_ended
    \/ Tick

SpecLink == InitLink /\ [][NextLink]_vars

\* ------------------------------------- gift confirmations: an event in
\* progress with its pairs stored, two santas, each in the private chat and
\* in the group chat
GiftKeys == Registrants \cup {GroupKey(u) : u \in Registrants}

InitGift ==
    /\ \E re \in RegEnds, sa \in ShipAfter :
          /\ events = [e \in EventIds |->
                          [EventRow(re, re + sa) EXCEPT !.status = "in_progress"]]
          /\ now = re
    /\ \E n \in MinParticipants..MaxN :
          /\ participants = [i \in 1..n |-> [event_id |-> 1, telegram_id |-> i]]
          /\ \E ids \in Sample(Perms(1..n)) : santa_pairs = PairRows(1, ids)
    /\ fsm = [k \in GiftKeys |-> NoFsm]
    /\ req = EmptyBag
    /\ notifier = IdleNotifier
    /\ link = IdleLink
    /\ call = NoCall
    /\ messages = FALSE
    /\ sent = <<>>
    /\ relayed = NoRelay
    /\ service = NoService
    /\ gift_confirmations = <<>>

NextGift ==
    \/ \E k \in GiftKeys : start_gift_confirmation(k)
    \/ \E k \in GiftKeys : process_tracking_number(k)
    \/ \E k \in GiftKeys : skip_tracking_number(k)
    \/ \E k \in GiftKeys : process_gift_message(k)

SpecGift == InitGift /\ [][NextGift]_vars

\* ------------------------------------- the notification service alone
InitLife ==
    /\ Init
    /\ notifier.next = 0
    /\ \A e \in EventIds : events[e].registration_end = 1 /\ events[e].shipping_deadline = 2

NextLife ==
    \/ init_notification_service
    \/ \E i \in 1..MaxServices : start(i)
    \/ \E i \in 1..MaxServices : stop(i)
    \/ stop_notification_service

SpecLife == InitLife /\ [][NextLife]_vars

\* ================================================================ properties
\* the ids in the santa / receiver column of the stored pairs of event e
Santas(e)    == {santa_pairs[i].santa_id : i \in PairsOf(santa_pairs, e)}
ReceiversOf(e) == {santa_pairs[i].receiver_id : i \in PairsOf(santa_pairs, e)}

\* the handler instances in flight that got as far as generate_pairs
Reached == {h \in Handlers : h.res \in {"ok", "already_paired", "failed"}}

\* C1: whatever the shuffle (and however many participants, three or more),
\* no stored pair has the same participant as santa and as receiver
C1_NoSelfPair ==
    \A i \in DOMAIN santa_pairs : santa_pairs[i].santa_id # santa_pairs[i].receiver_id

\* a successful pairing of an odd number of participants above three
C1_Witness == call.res = "ok" /\ call.n % 2 = 1 /\ call.n > MinParticipants

\* C2: a successful generate_pairs over N participants stores exactly N
\* pairs; the santas are exactly the participants and so are the receivers
C2_PairsArePermutation ==
    call.res = "ok" =>
        /\ Len(santa_pairs) = call.n
        /\ Cardinality(PairsOf(santa_pairs, 1)) = Cardinality(ParticipantsOf(participants, 1))
        /\ Santas(1) = ParticipantsOf(participants, 1)
        /\ ReceiversOf(1) = ParticipantsOf(participants, 1)

\* a successful pairing of an even and of the largest number of participants
C2_Witness == call.res = "ok" /\ call.n >= MinParticipants + 1 /\ Len(santa_pairs) = call.n

\* C3: of the pairing requests in flight together at most one has succeeded;
\* while one that succeeded is in flight, every other one that reached
\* generate_pairs without a persistence failure was rejected as paired
\* already, and the event has the N pairs of the successful one, not 2N; a
\* request is rejected as paired already only when pairs are stored
C3_OneRequestSucceeds ==
    /\ \A h \in Reached : h.res = "ok" =>
          /\ CopiesIn(h, req) = 1
          /\ \A g \in Reached \ {h} : g.event_id = h.event_id /\ g.res # "failed"
                                        => g.res = "already_paired"
          /\ Cardinality(PairsOf(santa_pairs, h.event_id)) = h.n
    /\ \A g \in Reached : g.res = "already_paired" => PairsOf(santa_pairs, g.event_id) # {}

\* two requests in flight: one succeeded and still sends its notifications,
\* the other was rejected as paired already
C3_Witness ==
    \E h, g \in Reached :
        /\ h.res = "ok" /\ h.pc = "notify"
        /\ g.res = "already_paired" /\ g.event_id = h.event_id
        /\ Len(santa_pairs) = h.n

\* C4 (as claimed): after a generate_pairs that failed while persisting, on
\* an event in 'registration', no pair is stored and the status is unchanged
C4_FailureLeavesNothing ==
    call.res = "failed" /\ call.status = "registration" =>
        /\ PairsOf(santa_pairs, 1) = {}
        /\ events[1].status = "registration"

\* C5: of two calls of generate_pairs in sequence on an event with three or
\* more participants and no pairs, the first succeeds when nothing fails,
\* the second is rejected as paired already and leaves the stored pairs as
\* the first call left them
C5_SecondCallRejected ==
    /\ (call.res # "none" /\ call.prev = "none" /\ call.n >= MinParticipants /\ call.fault = 0
            => call.res = "ok")
    /\ (call.prev = "ok"
            => call.res = "already_paired" /\ santa_pairs = call.before
               /\ Len(santa_pairs) = call.n)

\* the second call after a successful first one
C5_Witness == call.prev = "ok" /\ call.res = "already_paired" /\ santa_pairs # <<>>

\* C6: once a pair is stored, no step of the bot (pairing requests,
\* registrations, chat linking, the notification loop, messaging) adds,
\* removes or changes a stored pair
C6_PairsWriteOnce == [][santa_pairs # <<>> => santa_pairs' = santa_pairs]_vars

\* pairs are stored, and since then a participant registered, the chat was
\* linked, an anonymous message was relayed and the notification loop ran
C6_Witness ==
    /\ santa_pairs # <<>>
    /\ messages
    /\ Len(participants) > Len(santa_pairs)
    /\ events[1].group_chat_id = GroupChat
    /\ notifier.next > MaxTime

\* C7: generate_pairs on 0, 1 or 2 participants returns the
\* insufficient-participants failure, stores no pair and leaves the status
C7_TooFewRejected ==
    call.res # "none" /\ call.n <= 2 =>
        /\ call.res = "insufficient"
        /\ santa_pairs = <<>>
        /\ events[1].status = call.status

\* a call on two participants of an event in 'registration'
C7_Witness == call.res = "insufficient" /\ call.n = 2 /\ call.status = "registration"

\* C8 (as claimed): while a pairing request is in flight the tables show
\* either no pair or all N pairs with status 'in_progress'
C8_AllOrNothingVisible ==
    \A h \in Reached :
        /\ h.res = "failed" =>
              \/ PairsOf(santa_pairs, h.event_id) = {}
              \/ \E g \in Reached : g.res = "ok"
        /\ h.res = "ok" =>
              /\ Cardinality(PairsOf(santa_pairs, h.event_id)) = h.n
              /\ events[h.event_id].status = "in_progress"

\* C9 (as claimed): when an event has a stored pair, each of its
\* participants is the santa of exactly one and the receiver of exactly one
C9_EveryoneOnceEach ==
    \A e \in EventIds : PairsOf(santa_pairs, e) # {} =>
        \A p \in ParticipantsOf(participants, e) :
            /\ Cardinality({i \in PairsOf(santa_pairs, e) : santa_pairs[i].santa_id = p}) = 1
            /\ Cardinality({i \in PairsOf(santa_pairs, e) : santa_pairs[i].receiver_id = p}) = 1

C11_InProgressMeansPaired ==
    \A e \in EventIds : events[e].status = "in_progress" =>
        /\ PairsOf(santa_pairs, e) # {}
        /\ Cardinality(Santas(e)) = Cardinality(PairsOf(santa_pairs, e))
        /\ Santas(e) = ReceiversOf(e)

\* C12: when generate_pairs has returned success, the event has as many
\* stored pairs as it had participants at the call, and its stored status is
\* 'in_progress'
C12_SuccessStoresAll ==
    call.res = "ok" =>
        /\ Cardinality(PairsOf(santa_pairs, 1)) = call.n
        /\ events[1].status = "in_progress"

\* a success on an event that was in 'registration'
C12_Witness ==
    call.res = "ok" /\ call.status = "registration" /\ events[1].status = "in_progress"

\* C13: a start_pairing request for an id that resolves to no event gets
\* the event-not-found answer, and no pair is ever stored under such an id
C13_MissingEventNotFound ==
    /\ \A h \in Handlers : h.event_id \notin DOMAIN events => h.res = "not_found"
    /\ \A i \in DOMAIN santa_pairs : santa_pairs[i].event_id \in DOMAIN events

\* such a request in flight, next to stored pairs of the existing event
C13_Witness ==
    /\ \E h \in Handlers : h.event_id = MissingEvent /\ h.res = "not_found"
    /\ santa_pairs # <<>>

\* the participants to whom a pairing notification was handed to Telegram
Notified == {sent[i].santa : i \in DOMAIN sent}

\* C14 (as claimed): no request pressed by a user outside ADMIN_IDS gets as
\* far as a successful pairing
C14_OnlyAdminsPair ==
    \A h \in Handlers : h.by \notin AdminIds => h.res # "ok"

\* C15: deliveries that fail change neither the stored pairs nor the event
\* row nor the request's result, and the loop still reaches every giver: a
\* successful request that is past its notifications has attempted all N
\* deliveries and left N pairs and status 'in_progress'
C15_DeliveryFailureIsolated ==
    /\ [](\A h \in Handlers : h.res = "ok" /\ h.pc = "answer" =>
             /\ Len(sent) = h.n
             /\ Cardinality(PairsOf(santa_pairs, h.event_id)) = h.n
             /\ events[h.event_id].status = "in_progress")
    /\ [][Len(sent') > Len(sent) =>
             /\ santa_pairs' = santa_pairs
             /\ events' = events
             /\ req' = req]_vars

\* a successful request past its notifications, of which one failed before
\* another was delivered
C15_Witness ==
    /\ \E h \in Handlers : h.res = "ok" /\ h.pc = "answer"
    /\ \E i, j \in DOMAIN sent :
          i < j /\ sent[i].outcome = "failed" /\ sent[j].outcome = "delivered"

\* C16: no giver is notified twice, every notification goes to the giver's
\* own chat and describes the receiver of the giver's own stored pair, none
\* is passed over, and once the successful request is past its notifications
\* every participant has had one
C16_EachGiverNotifiedOnce ==
    /\ \A i, j \in DOMAIN sent : sent[i].santa = sent[j].santa => i = j
    /\ \A i \in DOMAIN sent :
          /\ sent[i].outcome # "skipped"
          /\ sent[i].to = participants[sent[i].santa].telegram_id
          /\ \E r \in PairsOf(santa_pairs, 1) :
                /\ santa_pairs[r].santa_id = sent[i].santa
                /\ santa_pairs[r].receiver_id = sent[i].about
    /\ (events[1].status = "in_progress" /\ ~(\E h \in Handlers : h.pc = "notify")
            => Notified = ParticipantsOf(participants, 1))

\* the notifications of a pairing of the largest odd number of participants
\* are all out
C16_Witness ==
    /\ Len(sent) > MinParticipants /\ Len(sent) % 2 = 1
    /\ Notified = ParticipantsOf(participants, 1)
    /\ ~(\E h \in Handlers : h.pc = "notify")
\* the santa and the receiver column of the stored pairs, in row order
SantaColumn    == [i \in DOMAIN santa_pairs |-> santa_pairs[i].santa_id]
ReceiverColumn == [i \in DOMAIN santa_pairs |-> santa_pairs[i].receiver_id]

\* C17 (as claimed): the call that follows one failed on persistence
\* succeeds, persistence working, and stores exactly N pairs
C17_RetryAfterFailure ==
    call.prev = "failed" /\ call.fault = 0 /\ call.n >= MinParticipants =>
        /\ call.res = "ok"
        /\ Cardinality(PairsOf(santa_pairs, 1)) = call.n

\* C18: nothing is sent unless a pairing request has succeeded (all pairs
\* stored, status moved on), and no request with another result is ever in
\* the notification loop
C18_NoNotificationWithoutSuccess ==
    /\ sent # <<>> =>
          /\ events[1].status = "in_progress"
          /\ Cardinality(PairsOf(santa_pairs, 1)) = Cardinality(ParticipantsOf(participants, 1))
    /\ \A h \in Handlers : h.pc = "notify" => h.res = "ok"

\* a request that failed on persistence after storing a pair has been
\* answered to, a second one was rejected as paired already, nothing sent
C18_Witness ==
    /\ sent = <<>>
    /\ santa_pairs # <<>>
    /\ \E h, g \in Handlers : h.res = "failed" /\ g.res = "already_paired"

\* C19 (as claimed): the receivers are the shuffled ids reversed, with the
\* first and the middle receiver then exchanged on an odd length
C19_ReversedThenSwapped ==
    call.res = "ok" => ReceiverColumn = ReverseThenSwap(SantaColumn)

\* C19 (amended): the receivers are the shuffled ids reversed, with the
\* middle and the last receiver exchanged on an odd length (the code
\* exchanges the first and the middle id before it reverses)
C19_SwappedThenReversed ==
    call.res = "ok" =>
        LET n == Len(SantaColumn)
            c == (n \div 2) + 1
        IN  \A i \in 1..n :
                ReceiverColumn[i] =
                    IF n % 2 = 0 THEN SantaColumn[n + 1 - i]
                    ELSE IF i = c THEN SantaColumn[1]
                    ELSE IF i = n THEN SantaColumn[c]
                    ELSE SantaColumn[n + 1 - i]

\* a successful pairing of exactly three participants
C19_Witness == call.res = "ok" /\ call.n = MinParticipants /\ Len(ReceiverColumn) = call.n

\* C20 (as claimed): once an event has a stored pair, no step adds a
\* participant to it
C20_MembershipFrozen ==
    [][\A e \in EventIds : PairsOf(santa_pairs, e) # {} =>
          ParticipantsOf(participants', e) = ParticipantsOf(participants, e)]_vars
\* C21: the last message or reply relayed went to the other member of a
\* stored pair of which the sending user is a member: the sender's
\* participant record is the santa and the addressee the receiver's chat, or
\* the other way round
C21_RelayedWithinPair ==
    relayed.kind # "none" =>
        /\ relayed.pair_id \in DOMAIN santa_pairs
        /\ \E s \in DOMAIN participants :
              LET pair == santa_pairs[relayed.pair_id]
              IN  /\ participants[s].telegram_id = relayed.from
                  /\ participants[s].event_id = pair.event_id
                  /\ \/ /\ s = pair.santa_id
                        /\ relayed.to = participants[pair.receiver_id].telegram_id
                     \/ /\ s = pair.receiver_id
                        /\ relayed.to = participants[pair.santa_id].telegram_id

\* a reply by the user with the highest id was relayed, while the other
\* writer holds the reply button of a pair they are not in
C21_Witness ==
    /\ relayed.kind = "reply" /\ relayed.from = NumUsers
    /\ \E u \in Senders :
          /\ fsm[u].state = "waiting_for_reply"
          /\ fsm[u].pair_id \in DOMAIN santa_pairs
          /\ ~InPair(FirstParticipant(u), santa_pairs[fsm[u].pair_id])
\* C22 (as stated): the only changes of a wizard's state are none -> wishes
\* -> address -> delivery -> none
WizardSteps ==
    {<<"waiting_for_wishes", "waiting_for_address">>,
     <<"waiting_for_address", "waiting_for_delivery">>,
     <<"waiting_for_delivery", "none">>}

C22_StrictlyLinear ==
    [][\A k \in DOMAIN fsm :
          fsm'[k].state # fsm[k].state =>
              <<fsm[k].state, fsm'[k].state>> \in WizardSteps \cup {<<"none", "waiting_for_wishes">>}]_vars

\* C22 (amended): a wizard's state changes by one step forward or by
\* (re)entering waiting_for_wishes; participants change only by the step
\* that leaves waiting_for_delivery, which adds at most one record, for the
\* user and the event of that wizard, and always leaves the wizard without
\* state
C22_LinearUpToRestart ==
    [][/\ \A k \in DOMAIN fsm :
             fsm'[k].state # fsm[k].state =>
                 \/ fsm'[k].state = "waiting_for_wishes"
                 \/ <<fsm[k].state, fsm'[k].state>> \in WizardSteps
       /\ participants' # participants =>
             \E k \in DOMAIN fsm :
                 /\ fsm[k].state = "waiting_for_delivery"
                 /\ fsm'[k] = NoFsm
                 /\ \A j \in DOMAIN fsm \ {k} : fsm'[j] = fsm[j]
                 /\ participants' = Append(participants,
                                           [event_id |-> fsm[k].event_id,
                                            telegram_id |-> UserOf(k)])]_vars

C22_Witness ==
    \E k, j \in DOMAIN fsm :
        /\ fsm[k].state = "none" /\ IsRegistered(participants, 1, UserOf(k))
        /\ fsm[j].state = "waiting_for_delivery" /\ UserOf(j) # UserOf(k)
        /\ ~IsRegistered(participants, 1, UserOf(j))

\* C23: at most one notification loop runs, and none runs after
\* stop_notification_service
C23_AtMostOneLoop ==
    /\ Cardinality(Loops) <= 1
    /\ service.last = "stop_notification_service" => Loops = {}

\* C24: a start_pairing request for an event whose registration_end is in
\* the future is answered as too early, and writes neither a pair nor a status
C24_NoPairingBeforeEnd ==
    [][\A h \in BagToSet(req') :
          /\ CopiesIn(h, req') > CopiesIn(h, req)
          /\ h.event_id \in DOMAIN events
          /\ events[h.event_id].registration_end > now
          => /\ h.res = "too_early"
             /\ santa_pairs' = santa_pairs
             /\ events' = events]_vars

C24_Witness ==
    \E h \in Handlers :
        /\ h.res = "too_early"
        /\ events[h.event_id].registration_end > now
        /\ Cardinality(ParticipantsOf(participants, h.event_id)) >= MinParticipants
        /\ santa_pairs = <<>>

\* C25: the status of an event never moves back along registration ->
\* in_progress -> completed
StatusRank(st) == CASE st = "registration" -> 0 [] st = "in_progress" -> 1 [] OTHER -> 2

C25_StatusOnlyForward ==
    [][\A e \in DOMAIN events :
          StatusRank(events'[e].status) >= StatusRank(events[e].status)]_vars

\* C26: a shipping reminder that reaches a participant describes the
\* receiver of that participant's own pair
C26_OwnReceiverOnly ==
    \A i \in DOMAIN sent :
        sent[i].outcome = "delivered" =>
            sent[i].about = Recipient(santa_pairs, 1, sent[i].santa)

\* C27: a successful pairing of an even number of participants consists of
\* mutual pairs only (everyone's santa is their receiver); one of an odd
\* number N >= 3 consists of one cycle of three and (N - 3) / 2 mutual pairs
GiftTo(s) == Recipient(santa_pairs, 1, s)
Mutual    == {s \in Santas(1) : GiftTo(s) # s /\ GiftTo(GiftTo(s)) = s}
InThree   == {s \in Santas(1) : /\ GiftTo(s) # s
                                 /\ GiftTo(GiftTo(s)) # s
                                 /\ GiftTo(GiftTo(GiftTo(s))) = s}

C27_CycleShape ==
    call.res = "ok" =>
        /\ Mutual \cup InThree = ParticipantsOf(participants, 1)
        /\ IF call.n % 2 = 0
           THEN InThree = {}
           ELSE Cardinality(InThree) = 3 /\ Cardinality(Mutual) = call.n - 3

C27_Witness ==
    /\ call.res = "ok" /\ call.n % 2 = 1
    /\ Mutual # {} /\ InThree # {}

\* C28: with the notification loop running, an event in registration whose
\* registration_end has passed is eventually in progress
C28_EventuallyInProgress ==
    \A e \in EventIds :
        (events[e].status = "registration" /\ events[e].registration_end < now)
            ~> (events[e].status = "in_progress")

\* C29: no two participant records have the same event and the same
\* Telegram user
C29_OncePerEvent ==
    \A i, j \in DOMAIN participants :
        /\ participants[i].event_id = participants[j].event_id
        /\ participants[i].telegram_id = participants[j].telegram_id
        => i = j

\* C30: no two events have the same administrator
C30_OneEventPerAdmin ==
    \A i, j \in DOMAIN events : events[i].admin_id = events[j].admin_id => i = j

\* C31: no two events are linked to the same group chat
C31_OneEventPerChat ==
    \A i, j \in DOMAIN events :
        /\ events[i].group_chat_id # 0
        /\ events[i].group_chat_id = events[j].group_chat_id
        => i = j

\* C32: the wizard leaves waiting_for_registration_end only with a date
\* that is not in the past, and waiting_for_shipping_deadline only with a
\* date after the end of registration, in both cases without creating an
\* event; an event is created only from the data of a wizard in
\* waiting_for_budget, and every event has its shipping_deadline after its
\* registration_end
C32_DatesChecked ==
    [][/\ \A k \in DOMAIN fsm :
             /\ (fsm[k].state = "waiting_for_registration_end"
                    /\ fsm'[k].state = "waiting_for_shipping_deadline")
                 => ~(fsm'[k].registration_end < now) /\ events' = events
             /\ (fsm[k].state = "waiting_for_shipping_deadline"
                    /\ fsm'[k].state = "waiting_for_budget")
                 => /\ fsm'[k].shipping_deadline > fsm'[k].registration_end
                    /\ fsm'[k].registration_end = fsm[k].registration_end
                    /\ events' = events
             /\ (fsm[k].state = "waiting_for_budget" /\ fsm'[k].state = "waiting_for_budget")
                 => fsm'[k] = fsm[k]
       /\ events' # events =>
             \E k \in DOMAIN fsm :
                 /\ fsm[k].state = "waiting_for_budget" /\ fsm'[k].state = "none"
                 /\ Len(events') = Len(events) + 1
                 /\ \A e \in DOMAIN events : events'[e] = events[e]
                 /\ events'[Len(events')].registration_end = fsm[k].registration_end
                 /\ events'[Len(events')].shipping_deadline = fsm[k].shipping_deadline
       /\ \A e \in DOMAIN events' :
             events'[e].shipping_deadline > events'[e].registration_end]_vars

\* an event created from a registration end entered after the clock moved,
\* while another wizard waits for its shipping deadline
C32_Witness ==
    /\ now > 0
    /\ \E e \in DOMAIN events : events[e].registration_end >= now
    /\ \E k \in DOMAIN fsm :
          fsm[k].state = "waiting_for_shipping_deadline" /\ fsm[k].registration_end >= now

====
